---- MODULE Spec2Model ----
(***************************************************************************)
(* LiveTVCollector: the M3U collection pipeline.                           *)
(*                                                                         *)
(* Two programs of the repository are modelled:                            *)
(*   - the batched collector (src/unnamed/part_001): fetch -> dedup ->     *)
(*     batched liveness probes -> delete tree -> grouped parallel export;  *)
(*   - SpecialCollection.js: fetch -> per-channel check tasks that dedup   *)
(*     and probe at once.                                                  *)
(* Strings are TLA+ strings; characters are read with SubSeq.              *)
(***************************************************************************)
EXTENDS Integers, Sequences, FiniteSets, TLC

(***************************************************************************)
(* Bounds of the model (settings come from config.yml at run time).        *)
(***************************************************************************)
NumSources == 3
Concurrency == 2
BatchSize == 3
ChannelsPerFile == 2

Sources == 1..NumSources

(***************************************************************************)
(* String helpers: the JavaScript String methods the code calls.           *)
(***************************************************************************)
CharAt(s, i) == SubSeq(s, i, i)

startsWith(s, p) == Len(s) >= Len(p) /\ SubSeq(s, 1, Len(p)) = p

\* String.prototype.indexOf(p, from), 1-based; 0 when p does not occur.
RECURSIVE indexOf(_, _, _)
indexOf(s, p, from) ==
    IF from + Len(p) - 1 > Len(s) THEN 0
    ELSE IF SubSeq(s, from, from + Len(p) - 1) = p THEN from
    ELSE indexOf(s, p, from + 1)

includes(s, p) == indexOf(s, p, 1) # 0

WhiteSpace == {" ", "\t", "\r", "\n", "\f"}

RECURSIVE trimStart(_)
trimStart(s) ==
    IF Len(s) > 0 /\ CharAt(s, 1) \in WhiteSpace
    THEN trimStart(SubSeq(s, 2, Len(s)))
    ELSE s

RECURSIVE trimEnd(_)
trimEnd(s) ==
    IF Len(s) > 0 /\ CharAt(s, Len(s)) \in WhiteSpace
    THEN trimEnd(SubSeq(s, 1, Len(s) - 1))
    ELSE s

trim(s) == trimEnd(trimStart(s))

\* content.split('\n')
RECURSIVE split(_)
split(s) ==
    LET p == indexOf(s, "\n", 1) IN
    IF p = 0 THEN <<s>>
    ELSE <<SubSeq(s, 1, p - 1)>> \o split(SubSeq(s, p + 1, Len(s)))

\* Number -> decimal string, as a template literal renders it.
Digit(d) == CharAt("0123456789", d + 1)

RECURSIVE Numeral(_)
Numeral(n) == IF n < 10 THEN Digit(n) ELSE Numeral(n \div 10) \o Digit(n % 10)

(***************************************************************************)
(* parseM3U                                                                *)
(***************************************************************************)
GroupTitleAttr == "group-title=\""

\* line.match(/group-title="([^"]+)"/): <<>> for null, <<capture>> otherwise.
RECURSIVE groupMatch(_, _)
groupMatch(line, from) ==
    LET p == indexOf(line, GroupTitleAttr, from) IN
    IF p = 0 THEN <<>>
    ELSE LET start == p + Len(GroupTitleAttr)
             q == indexOf(line, "\"", start)
         IN  IF q > start THEN <<SubSeq(line, start, q - 1)>>
             ELSE groupMatch(line, p + 1)

LineTerminators == {"\n", "\r"}

\* The longest run of non-terminator characters starting at position i.
RECURSIVE dotRun(_, _)
dotRun(line, i) ==
    IF i > Len(line) \/ CharAt(line, i) \in LineTerminators THEN ""
    ELSE CharAt(line, i) \o dotRun(line, i + 1)

\* line.match(/,(.+)/): leftmost comma followed by at least one character.
RECURSIVE nameMatch(_, _)
nameMatch(line, from) ==
    LET p == indexOf(line, ",", from) IN
    IF p = 0 THEN <<>>
    ELSE IF dotRun(line, p + 1) # "" THEN <<dotRun(line, p + 1)>>
    ELSE nameMatch(line, p + 1)

\* The pending channel an #EXTINF line opens (url null is the empty string:
\* both are falsy, and a pushed channel always has its url assigned).
NewChannel(line) ==
    [name  |-> IF nameMatch(line, 1) # <<>> THEN nameMatch(line, 1)[1] ELSE "Unknown",
     url   |-> "",
     group |-> IF groupMatch(line, 1) # <<>> THEN groupMatch(line, 1)[1] ELSE "Unknown"]

\* mutant: the pending channel is not reset once a url line has closed it
RECURSIVE ParseLinesKeepPending(_, _, _, _)
ParseLinesKeepPending(lines, i, channels, cur) ==
    IF i > Len(lines) THEN channels
    ELSE LET line == trim(lines[i]) IN
         IF startsWith(line, "#EXTINF")
         THEN ParseLinesKeepPending(lines, i + 1, channels, <<NewChannel(line)>>)
         ELSE IF line # "" /\ ~startsWith(line, "#") /\ cur # <<>>
         THEN ParseLinesKeepPending(lines, i + 1,
                         Append(channels, [cur[1] EXCEPT !.url = line]), cur)
         ELSE ParseLinesKeepPending(lines, i + 1, channels, cur)

\* lines.forEach: cur is <<>> for currentChannel = null, <<channel>> otherwise.
RECURSIVE ParseLines(_, _, _, _)
ParseLines(lines, i, channels, cur) ==
    IF i > Len(lines) THEN channels
    ELSE LET line == trim(lines[i]) IN
         IF startsWith(line, "#EXTINF")
         THEN ParseLines(lines, i + 1, channels, <<NewChannel(line)>>)
         ELSE IF line # "" /\ ~startsWith(line, "#") /\ cur # <<>>
         THEN ParseLines(lines, i + 1,
                         Append(channels, [cur[1] EXCEPT !.url = line]), <<>>)
         ELSE ParseLines(lines, i + 1, channels, cur)

HasUrl(ch) == ch.url # ""

parseM3U(content) == SelectSeq(ParseLines(split(content), 1, <<>>, <<>>), HasUrl)

(***************************************************************************)
(* The remote playlists (the environment).  Source s lists urls s and s+1, *)
(* so neighbouring sources offer one url in common, under different names  *)
(* and groups.                                                             *)
(***************************************************************************)
UrlOf(k) == "http://x/" \o Numeral(k)

GroupTitles == <<"India News", "News">>

GroupTitleOf(s) == GroupTitles[IF s < Len(GroupTitles) THEN s ELSE Len(GroupTitles)]

ExtInf(s, tag) ==
    "#EXTINF:-1 "
    \o (IF GroupTitleOf(s) = "" THEN ""
        ELSE GroupTitleAttr \o GroupTitleOf(s) \o "\"")
    \o ",S" \o Numeral(s) \o tag

Playlist(s) ==
    "#EXTM3U\n"
    \o ExtInf(s, "a") \o "\n" \o UrlOf(s) \o "\r\n"
    \o "\n"
    \o ExtInf(s, "b") \o "\n" \o "#EXTVLCOPT:x\n" \o UrlOf(s + 1) \o "\n"

\* what parseM3U makes of each source's text
Parsed == [s \in Sources |-> parseM3U(Playlist(s))]

(***************************************************************************)
(* p-limit: at most Concurrency tasks of one limiter run at a time; the    *)
(* others wait in its queue and start in the order they were submitted.    *)
(***************************************************************************)
\* mutant: the limiter admits one task too many
SlotFreeInclusive(running) == running <= Concurrency

SlotFree(running) == running < Concurrency

\* mutant: the status of the response is not looked at
FetchStatusAny(status) == TRUE

\* response.status !== 200 throws; the thrown error is caught and null returned
FetchStatusOk(status) == status = 200

\* mutant: the upper end of the range is included
ProbeIsActiveInclusive(status) == status >= 200 /\ status <= 400

\* statusCode >= 200 && statusCode < 400
ProbeIsActive(status) == status >= 200 /\ status < 400

FetchStatuses == {200, 404}
ProbeStatuses == {199, 200, 399, 400}

\* Map.prototype.has / get / set on the url-keyed Map (values in insertion order)
mapHas(m, url) == \E i \in DOMAIN m : m[i].url = url

mapGet(m, url) == m[CHOOSE i \in DOMAIN m : m[i].url = url]

\* mutant: an array push instead of a keyed set
mapSetAppend(m, ch) == Append(m, ch)

mapSet(m, ch) ==
    IF mapHas(m, ch.url)
    THEN [i \in DOMAIN m |-> IF m[i].url = ch.url THEN ch ELSE m[i]]
    ELSE Append(m, ch)

\* mutant: the has-check is missing, the last writer wins
RECURSIVE AddAllOverwrite(_, _, _)
AddAllOverwrite(m, channels, i) ==
    IF i > Len(channels) THEN m
    ELSE AddAllOverwrite(mapSet(m, channels[i]), channels, i + 1)

\* channels.forEach(channel => { if (!allChannels.has(channel.url)) set })
RECURSIVE AddAll(_, _, _)
AddAll(m, channels, i) ==
    IF i > Len(channels) THEN m
    ELSE AddAll(IF mapHas(m, channels[i].url) THEN m ELSE mapSet(m, channels[i]),
                channels, i + 1)

\* results.map(r => r.value).flat() over the sources in declared order
RECURSIVE Flat(_, _)
Flat(vals, s) == IF s > NumSources THEN <<>> ELSE vals[s] \o Flat(vals, s + 1)

Min(a, b) == IF a < b THEN a ELSE b

\* Array.prototype.slice(from, to) with 0-based bounds
slice(a, from, to) == SubSeq(a, from + 1, Min(to, Len(a)))

(***************************************************************************)
(* groupChannels                                                           *)
(***************************************************************************)
countries ==
    <<"USA", "India", "UK", "Canada", "Australia", "Germany", "France", "Italy",
      "Spain", "Brazil", "China", "Japan", "Korea", "Mexico", "Russia",
      "South Africa", "Argentina", "Netherlands", "Sweden", "Norway">>

UpperCase == "ABCDEFGHIJKLMNOPQRSTUVWXYZ"
LowerCase == "abcdefghijklmnopqrstuvwxyz"

RECURSIVE toLowerCase(_)
toLowerCase(s) ==
    IF s = "" THEN ""
    ELSE LET k == indexOf(UpperCase, CharAt(s, 1), 1) IN
         (IF k = 0 THEN CharAt(s, 1) ELSE CharAt(LowerCase, k))
         \o toLowerCase(SubSeq(s, 2, Len(s)))

\* c.toLowerCase() of each country
lowerCountries == [i \in DOMAIN countries |-> toLowerCase(countries[i])]

\* mutant: the last country of the list that occurs wins
RECURSIVE findFromLast(_, _)
findFromLast(lowerGroup, i) ==
    IF i > Len(countries) THEN ""
    ELSE IF findFromLast(lowerGroup, i + 1) # "" THEN findFromLast(lowerGroup, i + 1)
    ELSE IF includes(lowerGroup, lowerCountries[i]) THEN countries[i]
    ELSE ""

\* countries.find(c => group.toLowerCase().includes(c.toLowerCase()));
\* undefined is the empty string
RECURSIVE findFrom(_, _)
findFrom(lowerGroup, i) ==
    IF i > Len(countries) THEN ""
    ELSE IF includes(lowerGroup, lowerCountries[i]) THEN countries[i]
    ELSE findFrom(lowerGroup, i + 1)

findCountry(group) == findFrom(toLowerCase(group), 1)

\* group.replace(new RegExp(foundCountry, 'i'), ''): the leftmost match goes
removeFirst(group, c) ==
    LET p == indexOf(toLowerCase(group), toLowerCase(c), 1) IN
    IF p = 0 THEN group
    ELSE SubSeq(group, 1, p - 1) \o SubSeq(group, p + Len(c), Len(group))

\* the (group, country) pair groupChannels computes for a channel
GroupKeyOf(ch) ==
    LET group == IF ch.group # "" THEN ch.group ELSE "Unknown"
        found == findCountry(group)
    IN  IF found # ""
        THEN [group   |-> IF trim(removeFirst(group, found)) # ""
                          THEN trim(removeFirst(group, found)) ELSE "General",
              country |-> found]
        ELSE [group |-> group, country |-> "Unknown"]

\* grouped = {} is a plain object: a property lookup that finds no own property
\* goes on to Object.prototype, whose properties are all truthy.
ObjectPrototypeKeys ==
    {"constructor", "__proto__", "hasOwnProperty", "isPrototypeOf",
     "propertyIsEnumerable", "toLocaleString", "toString", "valueOf",
     "__defineGetter__", "__defineSetter__", "__lookupGetter__", "__lookupSetter__"}

\* own: the own properties of grouped in insertion order, each
\*      [key, countries: the own properties of grouped[key] in insertion order];
\* proto: the properties the run has added to Object.prototype
EmptyCatalog == [own |-> <<>>, proto |-> {}]

Inherited(key, cat) == key \in ObjectPrototypeKeys \cup cat.proto

KeyIndex(props, key) ==
    IF \E i \in DOMAIN props : props[i].key = key
    THEN CHOOSE i \in DOMAIN props : props[i].key = key
    ELSE 0

\* grouped[groupKey][country] on an own object G of grouped
PushInto(G, country, ch, cat) ==
    LET ci == KeyIndex(G.countries, country) IN
    IF ci # 0
    THEN [G EXCEPT !.countries[ci].channels = Append(@, ch)]
    ELSE IF Inherited(country, cat)
    THEN G       \* the array found up the prototype chain takes the channel
    ELSE [G EXCEPT !.countries = Append(@, [key |-> country, channels |-> <<ch>>])]

\* the body of channels.forEach in groupChannels
AddChannel(cat, ch) ==
    LET k  == GroupKeyOf(ch)
        gi == KeyIndex(cat.own, k.group)
    IN  IF gi # 0
        THEN [cat EXCEPT !.own[gi] = PushInto(@, k.country, ch, cat)]
        ELSE IF Inherited(k.group, cat)
        THEN \* grouped[groupKey] is an inherited object: nothing is created on
             \* grouped; under "__proto__" the country lands on Object.prototype
             IF k.group = "__proto__" /\ ~Inherited(k.country, cat)
             THEN [cat EXCEPT !.proto = @ \cup {k.country}]
             ELSE cat
        ELSE [cat EXCEPT !.own =
                 Append(@, PushInto([key |-> k.group, countries |-> <<>>],
                                    k.country, ch, cat))]

RECURSIVE GroupFrom(_, _, _)
GroupFrom(cat, channels, i) ==
    IF i > Len(channels) THEN cat
    ELSE GroupFrom(AddChannel(cat, channels[i]), channels, i + 1)

groupChannels(channels) == GroupFrom(EmptyCatalog, channels, 1)

\* for (const [group, countries] of Object.entries(groupedChannels))
\*   for (const [country, groupChannels] of Object.entries(countries))
RECURSIVE CountryEntries(_, _)
CountryEntries(G, i) ==
    IF i > Len(G.countries) THEN <<>>
    ELSE <<[group |-> G.key, country |-> G.countries[i].key,
            channels |-> G.countries[i].channels]>> \o CountryEntries(G, i + 1)

RECURSIVE Entries(_, _)
Entries(own, i) ==
    IF i > Len(own) THEN <<>>
    ELSE CountryEntries(own[i], 1) \o Entries(own, i + 1)

(***************************************************************************)
(* splitChannels and the chunk names                                       *)
(***************************************************************************)
\* mutant: the slice takes one element too many
RECURSIVE SplitFromInclusive(_, _, _)
SplitFromInclusive(channels, channelsPerFile, i) ==
    IF ~(i < Len(channels)) THEN <<>>
    ELSE <<slice(channels, i, i + channelsPerFile + 1)>>
         \o SplitFromInclusive(channels, channelsPerFile, i + channelsPerFile)

RECURSIVE SplitFrom(_, _, _)
SplitFrom(channels, channelsPerFile, i) ==
    IF ~(i < Len(channels)) THEN <<>>
    ELSE <<slice(channels, i, i + channelsPerFile)>>
         \o SplitFrom(channels, channelsPerFile, i + channelsPerFile)

splitChannels(channels, channelsPerFile) == SplitFrom(channels, channelsPerFile, 0)

\* mutant: the suffix is the 0-based index
suffixZeroBased(i) == IF i = 0 THEN "" ELSE Numeral(i)

\* const suffix = i === 0 ? '' : (i + 1); const baseName = `SpecialLinks${suffix}`
suffix(i) == IF i = 0 THEN "" ELSE Numeral(i + 1)

baseName(i) == "SpecialLinks" \o suffix(i)

\* s.replace(/[^a-zA-Z0-9]/g, '_')
AlphaNum == UpperCase \o LowerCase \o "0123456789"

RECURSIVE safeName(_)
safeName(s) ==
    IF s = "" THEN ""
    ELSE (IF includes(AlphaNum, CharAt(s, 1)) THEN CharAt(s, 1) ELSE "_")
         \o safeName(SubSeq(s, 2, Len(s)))

(***************************************************************************)
(* The output tree and the three renderings of a chunk                     *)
(***************************************************************************)
Formats == {"m3u", "json", "txt"}

\* `#EXTINF:-1 group-title="${group}",${channel.name}\n${channel.url}\n` per channel
m3uContent(group, chunk) ==
    [k \in DOMAIN chunk |-> [group |-> group, name |-> chunk[k].name, url |-> chunk[k].url]]

\* JSON.stringify(chunk, null, 2)
jsonContent(chunk) == chunk

\* chunk.map(channel => channel.url).join('\n')
txtContent(chunk) == [k \in DOMAIN chunk |-> [url |-> chunk[k].url]]

Render(format, group, chunk) ==
    CASE format = "m3u"  -> m3uContent(group, chunk)
      [] format = "json" -> jsonContent(chunk)
      [] format = "txt"  -> txtContent(chunk)

\* path.join(outputDirPrefix, safeGroup, safeCountry), below the prefix
groupDir(group, country) == <<safeName(group), safeName(country)>>

\* what an export task derives from its catalog entry e: the directory and the
\* chunks (both are functions of the entry alone)
ExportTask(e) ==
    [group    |-> e.group,
     country  |-> e.country,
     channels |-> e.channels,
     dir      |-> groupDir(e.group, e.country),
     chunks   |-> splitChannels(e.channels, ChannelsPerFile)]

\* the file a write of format f for chunk i of export task b creates
FileOf(b, i, f) ==
    [dir     |-> b.dir,
     name    |-> baseName(i) \o "." \o f,
     content |-> Render(f, b.group, b.chunks[i + 1])]

AbsentTree == [exists |-> FALSE, dirs |-> {}, files |-> {}]

\* what an earlier run left when its one active channel was OldChannel
OldChannel == [name |-> "Old", url |-> UrlOf(0), group |-> "Old"]

PreviousTree ==
    LET b == ExportTask([group |-> "Old", country |-> "Unknown",
                         channels |-> <<OldChannel>>]) IN
    [exists |-> TRUE, dirs |-> {b.dir}, files |-> {FileOf(b, 0, f) : f \in Formats}]

\* fs.mkdir(groupDir, { recursive: true })
mkdir(tr, dir) == [tr EXCEPT !.exists = TRUE, !.dirs = @ \cup {dir}]

\* fs.writeFile creates or replaces the file at its path
writeFile(tr, file) ==
    [tr EXCEPT !.files =
        {g \in @ : ~(g.dir = file.dir /\ g.name = file.name)} \cup {file}]

\* the urls of the channels a file lists
UrlsIn(file) == {file.content[k].url : k \in DOMAIN file.content}

VARIABLES
    variant,        \* "batched" (part_001) or "simple" (SpecialCollection.js)
    pc,             \* position of main
    config,         \* main's config: "unread", "loaded", or "failed" (loadConfig caught an error)
    pLimit,         \* TRUE once the dynamic import of p-limit has resolved
    queue,          \* the current limiter's queue of tasks not yet started
    fetchSt,        \* per source: "idle", "queued", "request", "body", "settled"
    fetchVal,       \* per source: the value its fetch task resolved with
    allChannels,    \* the Map keyed by url, as its values in insertion order
    fetchFailed,    \* history: the sources whose GET or body read failed
    items,          \* uniqueChannels (batched) / allChannelsList (simple)
    batchI,         \* the batch loop's i (0-based index of the batch's start)
    probeSt,        \* per item: "idle", "queued", "running", "active", "inactive", "dup"
    activeChannels, \* the list collectActiveLinks builds and returns
    probedOk,       \* history: urls with a probe that completed with 200 <= status < 400
    tree,           \* the file system under outputDirPrefix
    buckets,        \* the (group, country) entries saveResults iterates over
    expSt,          \* per bucket's export task: "queued", "mkdir", "writing",
                    \*   "fulfilled", "rejected"
    expChunk,       \* per bucket's export task: its chunk loop's i
    writes,         \* the fs.writeFile calls in flight, <<bucket, i, format>>
    input,          \* the argument of a single function call (SpecChunk, SpecGroup)
    result          \* what that call returned

fetchVars == <<fetchSt, fetchVal, fetchFailed>>
probeVars == <<items, batchI, probeSt, activeChannels, probedOk>>
saveVars == <<tree, buckets, expSt, expChunk, writes>>
callVars == <<input, result>>
pipelineVars == <<pLimit, queue, fetchVars, allChannels, probeVars, saveVars>>
vars == <<variant, pc, config, pipelineVars, callVars>>

PipelineInit(v) ==
    /\ variant = v
    /\ pc = "start"
    /\ config = "unread"
    /\ pLimit = FALSE
    /\ queue = <<>>
    /\ fetchSt = [s \in Sources |-> "idle"]
    /\ fetchVal = [s \in Sources |-> <<>>]
    /\ allChannels = <<>>
    /\ fetchFailed = {}
    /\ items = <<>>
    /\ batchI = 0
    /\ probeSt = <<>>
    /\ activeChannels = <<>>
    /\ probedOk = {}
    /\ buckets = <<>>
    /\ expSt = <<>>
    /\ expChunk = <<>>
    /\ writes = {}

\* The tree is absent on a fresh checkout, or is what an earlier run left.
NoCall == input = <<>> /\ result = <<>>

Init == PipelineInit("batched") /\ tree \in {AbsentTree, PreviousTree} /\ NoCall

InitSimple == PipelineInit("simple") /\ tree = AbsentTree /\ NoCall

FetchRunning == {s \in Sources : fetchSt[s] \in {"request", "body"}}
ProbeRunning == {j \in DOMAIN probeSt : probeSt[j] = "running"}

\* (async () => { pLimit = (await import('p-limit')).default; })()
PLimitLoaded ==
    /\ pc # "exit1"
    /\ ~pLimit
    /\ pLimit' = TRUE
    /\ UNCHANGED <<variant, config, pc, queue, fetchVars, allChannels, probeVars, saveVars, callVars>>

\* loadConfig resolves: main goes on to collectActiveLinks
LoadConfigOk ==
    /\ pc = "start"
    /\ config' = "loaded"
    /\ pc' = "collect"
    /\ UNCHANGED <<variant, pLimit, queue, fetchVars, allChannels, probeVars, saveVars, callVars>>

\* mutant: the error is logged but the process does not exit
LoadConfigFailContinues ==
    /\ pc = "start"
    /\ config' = "failed"
    /\ pc' = "collect"
    /\ UNCHANGED <<variant, pLimit, queue, fetchVars, allChannels, probeVars, saveVars, callVars>>

\* loadConfig catches a read or YAML error: process.exit(1)
LoadConfigFail ==
    /\ pc = "start"
    /\ config' = "failed"
    /\ pc' = "exit1"
    /\ UNCHANGED <<variant, pLimit, queue, fetchVars, allChannels, probeVars, saveVars, callVars>>

\* collectActiveLinks leaves its wait loop, builds the limiter and submits
\* one fetch task per source
CollectStart ==
    /\ pc = "collect"
    /\ pLimit
    /\ pc' = "fetch"
    /\ queue' = [i \in 1..NumSources |-> i]
    /\ fetchSt' = [s \in Sources |-> "queued"]
    /\ UNCHANGED <<variant, config, pLimit, fetchVal, fetchFailed, allChannels, probeVars, saveVars, callVars>>

\* the limiter starts the next queued fetch task: fetchM3U issues the GET
FetchStart(s) ==
    /\ pc = "fetch"
    /\ queue # <<>>
    /\ s = Head(queue)
    /\ SlotFree(Cardinality(FetchRunning))
    /\ queue' = Tail(queue)
    /\ fetchSt' = [fetchSt EXCEPT ![s] = "request"]
    /\ UNCHANGED <<variant, config, pc, pLimit, fetchVal, fetchFailed, allChannels, probeVars, saveVars, callVars>>

\* the fetch task's tail once the text is there: parse, (batched) dedup, return
FetchParsed(s) ==
    LET channels == Parsed[s] IN
    /\ fetchSt' = [fetchSt EXCEPT ![s] = "settled"]
    /\ fetchVal' = [fetchVal EXCEPT ![s] = channels]
    /\ allChannels' = IF variant = "batched"
                      THEN AddAll(allChannels, channels, 1)
                      ELSE allChannels

\* fetchM3U returns null: the task returns []
FetchNull(s) ==
    /\ fetchSt' = [fetchSt EXCEPT ![s] = "settled"]
    /\ fetchVal' = [fetchVal EXCEPT ![s] = <<>>]
    /\ allChannels' = allChannels

\* the GET answers with a status
FetchResponse(s) ==
    /\ pc = "fetch"
    /\ fetchSt[s] = "request"
    /\ \E status \in FetchStatuses :
          /\ fetchFailed' = IF status # 200 THEN fetchFailed \cup {s} ELSE fetchFailed
          /\ IF ~FetchStatusOk(status) THEN FetchNull(s)
             ELSE IF variant = "batched"
             THEN /\ fetchSt' = [fetchSt EXCEPT ![s] = "body"]
                  /\ UNCHANGED <<fetchVal, allChannels>>
             ELSE FetchParsed(s)
    /\ UNCHANGED <<variant, config, pc, pLimit, queue, probeVars, saveVars, callVars>>

\* the GET rejects (network error or timeout)
FetchError(s) ==
    /\ pc = "fetch"
    /\ fetchSt[s] = "request"
    /\ FetchNull(s)
    /\ fetchFailed' = fetchFailed \cup {s}
    /\ UNCHANGED <<variant, config, pc, pLimit, queue, probeVars, saveVars, callVars>>

\* batched: await body.text() resolves
FetchBody(s) ==
    /\ pc = "fetch"
    /\ fetchSt[s] = "body"
    /\ FetchParsed(s)
    /\ fetchFailed' = fetchFailed
    /\ UNCHANGED <<variant, config, pc, pLimit, queue, probeVars, saveVars, callVars>>

\* batched: await body.text() rejects
FetchBodyError(s) ==
    /\ pc = "fetch"
    /\ fetchSt[s] = "body"
    /\ FetchNull(s)
    /\ fetchFailed' = fetchFailed \cup {s}
    /\ UNCHANGED <<variant, config, pc, pLimit, queue, probeVars, saveVars, callVars>>

\* mutant: the join resolves with the first fetch task that settles
AnyFetchSettled == \E s \in Sources : fetchSt[s] = "settled"

AllFetchesSettled == \A s \in Sources : fetchSt[s] = "settled"

\* the indices (1-based) of the batch that starts at 0-based index i
BatchOf(i, n) == (i + 1)..Min(i + BatchSize, n)

\* mutant: the batch is awaited until every entry of the table has settled
BatchSettledWhole(i, n, st) == \A j \in 1..n : st[j] \in {"active", "inactive"}

\* mutant: the batch is taken as done when its first probe settles
BatchSettledAny(i, n, st) == \E j \in BatchOf(i, n) : st[j] \in {"active", "inactive"}

\* await Promise.allSettled(urls.map(...)): every probe of the batch has settled
BatchSettled(i, n, st) == \A j \in BatchOf(i, n) : st[j] \in {"active", "inactive"}

\* mutant: the slice of the next batch starts one entry early
SubmitBatchOverlap(i, n) ==
    /\ queue' = [k \in 1..(Min(i + BatchSize, n) - i + 1) |-> i + k - 1]
    /\ probeSt' = [j \in 1..n |->
                     IF j \in i..Min(i + BatchSize, n) THEN "queued"
                     ELSE IF j <= i THEN probeSt[j] ELSE "idle"]

\* batched: checkLinkBatch builds a fresh limiter and submits one probe task
\* per url of the batch
SubmitBatch(i, n) ==
    /\ queue' = [k \in 1..(Min(i + BatchSize, n) - i) |-> i + k]
    /\ probeSt' = [j \in 1..n |->
                     IF j \in BatchOf(i, n) THEN "queued"
                     ELSE IF j <= i THEN probeSt[j] ELSE "idle"]

\* batched: Promise.allSettled(fetchPromises) resolves; uniqueChannels is read
\* off the Map and the batch loop is entered (or skipped when it is empty)
FetchJoin ==
    /\ variant = "batched"
    /\ pc = "fetch"
    /\ AllFetchesSettled
    /\ items' = allChannels
    /\ batchI' = 0
    /\ activeChannels' = <<>>
    /\ IF Len(allChannels) > 0
       THEN /\ pc' = "probe"
            /\ queue' = [k \in 1..Min(BatchSize, Len(allChannels)) |-> k]
            /\ probeSt' = [j \in 1..Len(allChannels) |->
                             IF j <= BatchSize THEN "queued" ELSE "idle"]
       ELSE /\ pc' = "done"
            /\ UNCHANGED <<queue, probeSt>>
    /\ UNCHANGED <<variant, config, pLimit, fetchVars, allChannels, probedOk, saveVars, callVars>>

\* the limiter starts the next queued probe task: the HEAD request is issued
ProbeStart(j) ==
    /\ variant = "batched"
    /\ pc = "probe"
    /\ queue # <<>>
    /\ j = Head(queue)
    /\ SlotFree(Cardinality(ProbeRunning))
    /\ queue' = Tail(queue)
    /\ probeSt' = [probeSt EXCEPT ![j] = "running"]
    /\ UNCHANGED <<variant, config, pc, pLimit, fetchVars, allChannels,
                   items, batchI, activeChannels, probedOk, saveVars, callVars>>

\* the HEAD request answers: { url, isActive: statusCode >= 200 && statusCode < 400 }
ProbeDone(j) ==
    /\ variant = "batched"
    /\ pc = "probe"
    /\ probeSt[j] = "running"
    /\ \E status \in ProbeStatuses :
          /\ probeSt' = [probeSt EXCEPT ![j] =
                            IF ProbeIsActive(status) THEN "active" ELSE "inactive"]
          /\ probedOk' = IF status \in 200..399
                         THEN probedOk \cup {items[j].url} ELSE probedOk
    /\ UNCHANGED <<variant, config, pc, pLimit, queue, fetchVars, allChannels,
                   items, batchI, activeChannels, saveVars, callVars>>

\* the HEAD request rejects (timeout, connection error): { url, isActive: false }
ProbeError(j) ==
    /\ variant = "batched"
    /\ pc = "probe"
    /\ probeSt[j] = "running"
    /\ probeSt' = [probeSt EXCEPT ![j] = "inactive"]
    /\ UNCHANGED <<variant, config, pc, pLimit, queue, fetchVars, allChannels,
                   items, batchI, activeChannels, probedOk, saveVars, callVars>>

\* batchResults.forEach(result => { channel = allChannels.get(result.url);
\*                                  if (channel) activeChannels.push(channel) })
RECURSIVE PushActive(_, _, _, _)
PushActive(active, i, n, st) ==
    IF i > n THEN active
    ELSE PushActive(IF st[i] = "active" /\ mapHas(allChannels, items[i].url)
                    THEN Append(active, mapGet(allChannels, items[i].url))
                    ELSE active,
                    i + 1, n, st)

\* batched: the batch's Promise.allSettled resolves; its active urls are pushed
\* and the loop moves to the next batch, or collectActiveLinks returns
BatchEnd ==
    /\ variant = "batched"
    /\ pc = "probe"
    /\ BatchSettled(batchI, Len(items), probeSt)
    /\ activeChannels' = PushActive(activeChannels, batchI + 1,
                                    Min(batchI + BatchSize, Len(items)), probeSt)
    /\ batchI' = batchI + BatchSize
    /\ IF batchI + BatchSize < Len(items)
       THEN /\ SubmitBatch(batchI + BatchSize, Len(items))
            /\ pc' = "probe"
       ELSE /\ pc' = IF Len(activeChannels') > 0 THEN "save" ELSE "done"
            /\ UNCHANGED <<queue, probeSt>>
    /\ UNCHANGED <<variant, config, pLimit, fetchVars, allChannels, items, probedOk, saveVars, callVars>>

\* simple: Promise.allSettled(fetchPromises) resolves; the fulfilled values are
\* flattened and one check task per listed channel is submitted
FetchJoinSimple ==
    /\ variant = "simple"
    /\ pc = "fetch"
    /\ AllFetchesSettled
    /\ items' = Flat(fetchVal, 1)
    /\ probeSt' = [j \in 1..Len(Flat(fetchVal, 1)) |-> "queued"]
    /\ queue' = [j \in 1..Len(Flat(fetchVal, 1)) |-> j]
    /\ pc' = "check"
    /\ UNCHANGED <<variant, config, pLimit, fetchVars, allChannels, batchI,
                   activeChannels, probedOk, saveVars, callVars>>

\* simple: the limiter starts a check task; it tests the Map and either issues
\* the HEAD request or ends as a duplicate
CheckStart(j) ==
    /\ variant = "simple"
    /\ pc = "check"
    /\ queue # <<>>
    /\ j = Head(queue)
    /\ SlotFree(Cardinality(ProbeRunning))
    /\ queue' = Tail(queue)
    /\ probeSt' = [probeSt EXCEPT ![j] =
                      IF ~mapHas(allChannels, items[j].url) THEN "running" ELSE "dup"]
    /\ UNCHANGED <<variant, config, pc, pLimit, fetchVars, allChannels,
                   items, batchI, activeChannels, probedOk, saveVars, callVars>>

\* simple: checkLinkActive returns; an active channel is set into the Map
CheckDone(j) ==
    /\ variant = "simple"
    /\ pc = "check"
    /\ probeSt[j] = "running"
    /\ \E status \in ProbeStatuses :
          /\ probeSt' = [probeSt EXCEPT ![j] =
                            IF ProbeIsActive(status) THEN "active" ELSE "inactive"]
          /\ allChannels' = IF ProbeIsActive(status)
                            THEN mapSet(allChannels, items[j]) ELSE allChannels
          /\ probedOk' = IF status \in 200..399
                         THEN probedOk \cup {items[j].url} ELSE probedOk
    /\ UNCHANGED <<variant, config, pc, pLimit, queue, fetchVars,
                   items, batchI, activeChannels, saveVars, callVars>>

\* simple: axios.head rejects; checkLinkActive returns false
CheckError(j) ==
    /\ variant = "simple"
    /\ pc = "check"
    /\ probeSt[j] = "running"
    /\ probeSt' = [probeSt EXCEPT ![j] = "inactive"]
    /\ UNCHANGED <<variant, config, pc, pLimit, queue, fetchVars, allChannels,
                   items, batchI, activeChannels, probedOk, saveVars, callVars>>

\* simple: Promise.allSettled(checkPromises) resolves; the Map's values are returned
CheckJoin ==
    /\ variant = "simple"
    /\ pc = "check"
    /\ \A j \in DOMAIN probeSt : probeSt[j] \in {"active", "inactive", "dup"}
    /\ activeChannels' = allChannels
    /\ pc' = "returned"
    /\ UNCHANGED <<variant, config, pLimit, queue, fetchVars, allChannels,
                   items, batchI, probeSt, probedOk, saveVars, callVars>>

(***************************************************************************)
(* saveResults (batched collector)                                         *)
(***************************************************************************)
ExportRunning == {b \in DOMAIN expSt : expSt[b] \in {"mkdir", "writing"}}

NonEmpty(b) == Len(b.channels) # 0

\* after the first deleteDirectory: group, then submit one export task per
\* non-empty entry of the catalog
SubmitExports ==
    LET bs == SelectSeq(Entries(groupChannels(activeChannels).own, 1), NonEmpty) IN
    /\ buckets' = [b \in 1..Len(bs) |-> ExportTask(bs[b])]
    /\ expSt' = [b \in 1..Len(bs) |-> "queued"]
    /\ expChunk' = [b \in 1..Len(bs) |-> 0]
    /\ queue' = [b \in 1..Len(bs) |-> b]
    /\ pc' = "export"

\* await deleteDirectory(outputDirPrefix): fs.rm resolves, the tree is gone
SaveRmDone ==
    /\ pc = "save"
    /\ tree' = AbsentTree
    /\ SubmitExports
    /\ UNCHANGED <<variant, config, pLimit, fetchVars, allChannels, probeVars, writes, callVars>>

\* fs.rm rejects: deleteDirectory logs the error and returns
SaveRmError ==
    /\ pc = "save"
    /\ tree.exists
    /\ tree' = tree
    /\ SubmitExports
    /\ UNCHANGED <<variant, config, pLimit, fetchVars, allChannels, probeVars, writes, callVars>>

\* the limiter starts the next export task: fs.mkdir is issued
ExportStart(b) ==
    /\ pc = "export"
    /\ queue # <<>>
    /\ b = Head(queue)
    /\ SlotFree(Cardinality(ExportRunning))
    /\ queue' = Tail(queue)
    /\ expSt' = [expSt EXCEPT ![b] = "mkdir"]
    /\ UNCHANGED <<variant, config, pc, pLimit, fetchVars, allChannels, probeVars,
                   tree, buckets, expChunk, writes, callVars>>

\* Promise.all([writeFile m3u, writeFile json, writeFile txt]) for chunk i
ChunkWrites(b, i) == {<<b, i, f>> : f \in Formats}

\* mutant: the chunk loop stops one chunk early
NumChunksOffByOne(b) == Len(buckets[b].chunks) - 1

NumChunks(b) == Len(buckets[b].chunks)

\* fs.mkdir resolves: the chunks are cut and the first chunk's files are written
MkdirDone(b) ==
    /\ pc = "export"
    /\ expSt[b] = "mkdir"
    /\ tree' = mkdir(tree, buckets[b].dir)
    /\ IF NumChunks(b) > 0
       THEN /\ expSt' = [expSt EXCEPT ![b] = "writing"]
            /\ writes' = writes \cup ChunkWrites(b, 0)
       ELSE /\ expSt' = [expSt EXCEPT ![b] = "fulfilled"]
            /\ writes' = writes
    /\ UNCHANGED <<variant, config, pc, pLimit, queue, fetchVars, allChannels, probeVars,
                   buckets, expChunk, callVars>>

\* fs.mkdir rejects: the export task rejects
MkdirError(b) ==
    /\ pc = "export"
    /\ expSt[b] = "mkdir"
    /\ expSt' = [expSt EXCEPT ![b] = "rejected"]
    /\ UNCHANGED <<variant, config, pc, pLimit, queue, fetchVars, allChannels, probeVars,
                   tree, buckets, expChunk, writes, callVars>>

\* a write in flight fails: Promise.all rejects at once and so does the task,
\* whatever its other writes are doing
WriteFails(w) ==
    /\ writes' = writes \ {w}
    /\ tree' = tree
    /\ expSt' = [expSt EXCEPT ![w[1]] = IF @ = "writing" THEN "rejected" ELSE @]
    /\ UNCHANGED expChunk

\* a write in flight completes; the last one of a chunk lets the task go on to
\* the next chunk, or fulfils it
WriteDone(w) ==
    /\ pc \in {"export", "cleanup", "done"}
    /\ w \in writes
    /\ IF buckets[w[1]].dir \in tree.dirs
       THEN /\ tree' = writeFile(tree, FileOf(buckets[w[1]], w[2], w[3]))
            /\ IF expSt[w[1]] = "writing" /\ ChunkWrites(w[1], w[2]) \cap writes = {w}
               THEN IF w[2] + 1 < NumChunks(w[1])
                    THEN /\ expChunk' = [expChunk EXCEPT ![w[1]] = w[2] + 1]
                         /\ writes' = (writes \ {w}) \cup ChunkWrites(w[1], w[2] + 1)
                         /\ expSt' = expSt
                    ELSE /\ expSt' = [expSt EXCEPT ![w[1]] = "fulfilled"]
                         /\ writes' = writes \ {w}
                         /\ expChunk' = expChunk
               ELSE /\ writes' = writes \ {w}
                    /\ UNCHANGED <<expSt, expChunk>>
       ELSE WriteFails(w)          \* ENOENT: the directory is gone
    /\ UNCHANGED <<variant, config, pc, pLimit, queue, fetchVars, allChannels, probeVars,
                   buckets, callVars>>

\* fs.writeFile rejects
WriteError(w) ==
    /\ pc \in {"export", "cleanup", "done"}
    /\ w \in writes
    /\ WriteFails(w)
    /\ UNCHANGED <<variant, config, pc, pLimit, queue, fetchVars, allChannels, probeVars,
                   buckets, callVars>>

\* results.filter(result => result.status === 'fulfilled')
successfulSaves == {b \in DOMAIN expSt : expSt[b] = "fulfilled"}

\* Promise.allSettled(savePromises) resolves: with no fulfilled task the tree
\* is deleted again, otherwise saveResults returns and main completes
ExportJoin ==
    /\ pc = "export"
    /\ \A b \in DOMAIN expSt : expSt[b] \in {"fulfilled", "rejected"}
    /\ pc' = IF Cardinality(successfulSaves) = 0 THEN "cleanup" ELSE "done"
    /\ UNCHANGED <<variant, config, pLimit, queue, fetchVars, allChannels, probeVars, saveVars, callVars>>

\* the second deleteDirectory: fs.rm resolves
CleanupRmDone ==
    /\ pc = "cleanup"
    /\ tree' = AbsentTree
    /\ pc' = "done"
    /\ UNCHANGED <<variant, config, pLimit, queue, fetchVars, allChannels, probeVars,
                   buckets, expSt, expChunk, writes, callVars>>

\* the second deleteDirectory: fs.rm rejects, the error is logged
CleanupRmError ==
    /\ pc = "cleanup"
    /\ tree.exists
    /\ pc' = "done"
    /\ UNCHANGED <<variant, config, pLimit, queue, fetchVars, allChannels, probeVars, saveVars, callVars>>

FetchStage ==
    \/ PLimitLoaded
    \/ LoadConfigOk
    \/ LoadConfigFail
    \/ CollectStart
    \/ \E s \in Sources : FetchStart(s)
    \/ \E s \in Sources : FetchResponse(s)
    \/ \E s \in Sources : FetchError(s)

Next ==
    \/ FetchStage
    \/ \E s \in Sources : FetchBody(s)
    \/ \E s \in Sources : FetchBodyError(s)
    \/ FetchJoin
    \/ \E j \in DOMAIN probeSt : ProbeStart(j)
    \/ \E j \in DOMAIN probeSt : ProbeDone(j)
    \/ \E j \in DOMAIN probeSt : ProbeError(j)
    \/ BatchEnd
    \/ SaveRmDone
    \/ SaveRmError
    \/ \E b \in DOMAIN expSt : ExportStart(b)
    \/ \E b \in DOMAIN expSt : MkdirDone(b)
    \/ \E b \in DOMAIN expSt : MkdirError(b)
    \/ \E w \in writes : WriteDone(w)
    \/ \E w \in writes : WriteError(w)
    \/ ExportJoin
    \/ CleanupRmDone
    \/ CleanupRmError

NextSimple ==
    \/ FetchStage
    \/ FetchJoinSimple
    \/ \E j \in DOMAIN probeSt : CheckStart(j)
    \/ \E j \in DOMAIN probeSt : CheckDone(j)
    \/ \E j \in DOMAIN probeSt : CheckError(j)
    \/ CheckJoin

Spec == Init /\ [][Next]_vars

SpecSimple == InitSimple /\ [][NextSimple]_vars

\* the event loop runs a callback that is ready: an import, request or file
\* operation that is pending settles, and a task the limiter can start starts.
\* The fs.rm that saveResults awaits first settles too: its continuation is
\* ready in every state with pc = "save" and leaves that state, so its weak
\* fairness is the statement that the run does not stay at pc = "save".
SpecFair ==
    /\ Init
    /\ [][Next]_vars
    /\ WF_vars(pc # "save" /\ Next)
    /\ []<>(pc # "save")

(***************************************************************************)
(* Single calls of the pure functions, on bounded arguments                *)
(***************************************************************************)
MaxBucket == 10
MaxPerFile == 3
MaxGroupInput == 3

SeqsUpTo(S, n) == UNION {[1..m -> S] : m \in 0..n}

Chan(k, group) == [name |-> "N" \o Numeral(k), url |-> UrlOf(k), group |-> group]

\* the chunk loop of an export task: the base name of every chunk it writes
\* (an empty chunk is skipped)
RECURSIVE ChunkLoop(_, _)
ChunkLoop(channelChunks, i) ==
    IF ~(i < Len(channelChunks)) THEN <<>>
    ELSE (IF Len(channelChunks[i + 1]) = 0 THEN <<>>
          ELSE <<[base |-> baseName(i), chunk |-> channelChunks[i + 1]]>>)
         \o ChunkLoop(channelChunks, i + 1)

\* a bucket of up to MaxBucket channels and a channelsPerFile > 0
InitChunk ==
    /\ PipelineInit("splitChannels")
    /\ tree = AbsentTree
    /\ input \in [channels : SeqsUpTo({Chan(1, "News"), Chan(2, "News")}, MaxBucket),
                  channelsPerFile : 1..MaxPerFile]
    /\ result = <<>>

\* const channelChunks = splitChannels(groupChannels, channelsPerFile), then
\* the loop over the chunks
SplitCall ==
    /\ variant = "splitChannels"
    /\ pc = "start"
    /\ pc' = "return"
    /\ result' = [chunks  |-> splitChannels(input.channels, input.channelsPerFile),
                  written |-> ChunkLoop(splitChannels(input.channels,
                                                      input.channelsPerFile), 0)]
    /\ UNCHANGED <<variant, config, pipelineVars, input>>

NextChunk == SplitCall

SpecChunk == InitChunk /\ [][NextChunk]_vars

\* group strings a playlist can carry ("" stands for a channel without group)
GroupInputs ==
    {"", "Unknown", "News", "India News", "india", "News UK India",
     "India india", "constructor", "__proto__"}

\* up to MaxGroupInput channels with distinct urls and any of the group strings
InitGroup ==
    /\ PipelineInit("groupChannels")
    /\ tree = AbsentTree
    /\ \E g \in SeqsUpTo(GroupInputs, MaxGroupInput) :
          input = [i \in DOMAIN g |-> Chan(i, g[i])]
    /\ result = <<>>

\* const groupedChannels = groupChannels(channels), as saveResults iterates it
GroupCall ==
    /\ variant = "groupChannels"
    /\ pc = "start"
    /\ pc' = "return"
    /\ result' = Entries(groupChannels(input).own, 1)
    /\ UNCHANGED <<variant, config, pipelineVars, input>>

NextGroup == GroupCall

SpecGroup == InitGroup /\ [][NextGroup]_vars

MaxLines == 4

\* lines a playlist can hold: entry-metadata lines with and without a group
\* title and a display name, with a comma inside the quoted group title, a
\* blank line, another directive, and url lines (one indented, with a CR)
PlaylistLines ==
    {"#EXTINF:-1 group-title=\"News\",One",
     "#EXTINF:-1,Two",
     "#EXTINF:-1 group-title=\"Sports\"",
     "#EXTINF:-1 group-title=\"A,B\",Three",
     "#EXTINF:-1 group-title=\"C,D\",",
     "",
     "#EXTVLCOPT:x",
     "http://x/1",
     " http://x/2\r"}

\* the text whose split('\n') is lines
RECURSIVE JoinLines(_, _)
JoinLines(lines, i) ==
    IF i > Len(lines) THEN ""
    ELSE lines[i] \o (IF i < Len(lines) THEN "\n" ELSE "") \o JoinLines(lines, i + 1)

\* a playlist text of up to MaxLines lines; input keeps its lines
InitParse ==
    /\ PipelineInit("parseM3U")
    /\ tree = AbsentTree
    /\ input \in SeqsUpTo(PlaylistLines, MaxLines)
    /\ result = <<>>

\* const channels = parseM3U(m3uContent)
ParseCall ==
    /\ variant = "parseM3U"
    /\ pc = "start"
    /\ pc' = "return"
    /\ result' = parseM3U(JoinLines(input, 1))
    /\ UNCHANGED <<variant, config, pipelineVars, input>>

NextParse == ParseCall

SpecParse == InitParse /\ [][NextParse]_vars

(***************************************************************************)
(* Properties                                                              *)
(***************************************************************************)
NoDuplicateUrls(chs) == \A i, j \in DOMAIN chs : i # j => chs[i].url # chs[j].url

Elems(seq) == {seq[i] : i \in DOMAIN seq}

\* C1: the list collectActiveLinks of SpecialCollection.js returns never holds
\* two channels with the same url, whatever the fetch outcomes and the order
\* in which the check tasks complete.
C1_UniqueUrls ==
    /\ NoDuplicateUrls(allChannels)
    /\ pc = "returned" => NoDuplicateUrls(activeChannels)

\* two check tasks for the same url both probed it and both found it active
C1_Witness ==
    /\ pc = "returned"
    /\ Len(activeChannels) >= 2
    /\ \E i, j \in DOMAIN items :
          /\ i < j
          /\ items[i].url = items[j].url
          /\ probeSt[i] = "active"
          /\ probeSt[j] = "active"

\* C2: at the end of a run every channel in any file of the output tree has a
\* url whose probe of this run completed with a status in [200, 400).
C2_OnlyLiveInTree ==
    (pc = "done" /\ writes = {}) =>
        \A f \in tree.files : UrlsIn(f) \subseteq probedOk

\* C3: at most Concurrency source fetches are in flight at any time.
C3_FetchBound == Cardinality(FetchRunning) <= Concurrency

\* the limiter is full and a further source waits in its queue
C3_Witness ==
    /\ pc = "fetch"
    /\ Cardinality(FetchRunning) = Concurrency
    /\ queue # <<>>

BatchNo(j) == (j - 1) \div BatchSize

Issued(j) == probeSt[j] \in {"running", "active", "inactive"}

\* C4: a probe of a later batch is issued only when every probe of the earlier
\* batches has settled, and at most Concurrency probes are in flight.
C4_BatchesSequential ==
    variant = "batched" =>
        /\ Cardinality(ProbeRunning) <= Concurrency
        /\ \A j, k \in DOMAIN probeSt :
              (BatchNo(j) < BatchNo(k) /\ Issued(k)) =>
                  probeSt[j] \in {"active", "inactive"}

\* a batch larger than the limiter: Concurrency probes in flight, one of the
\* batch still queued, and the next batch not yet submitted
C4_Witness ==
    /\ pc = "probe"
    /\ Cardinality(ProbeRunning) = Concurrency
    /\ queue # <<>>
    /\ \E k \in DOMAIN probeSt : probeSt[k] = "idle"

FromSource(e, s) == e \in Elems(Parsed[s])

\* the run has a next step: a request is in flight, or a queued task has a free
\* slot, or the stage's join is due
CanStep ==
    \/ pc \in {"start", "save", "cleanup"}
    \/ pc = "collect"
    \/ /\ pc = "fetch"
       /\ \/ FetchRunning # {}
          \/ queue # <<>> /\ Cardinality(FetchRunning) < Concurrency
          \/ AllFetchesSettled
    \/ /\ pc = "probe"
       /\ \/ ProbeRunning # {}
          \/ queue # <<>> /\ Cardinality(ProbeRunning) < Concurrency
          \/ \A j \in BatchOf(batchI, Len(items)) : probeSt[j] \in {"active", "inactive"}
    \/ /\ pc = "export"
       /\ \/ \E b \in DOMAIN expSt : expSt[b] = "mkdir"
          \/ writes # {}
          \/ queue # <<>> /\ Cardinality(ExportRunning) < Concurrency
          \/ \A b \in DOMAIN expSt : expSt[b] \in {"fulfilled", "rejected"}

\* C5: a source whose fetch failed contributes nothing to the table, the other
\* sources are still fetched and parsed, and the run can only end with exit
\* status 0: nothing but a configuration failure exits with status 1, and
\* short of its completion the run always has a next step.
C5_SoftFetchFailure ==
    /\ \A s \in fetchFailed :
          /\ fetchSt[s] = "settled"
          /\ fetchVal[s] = <<>>
          /\ \A e \in Elems(allChannels) : ~FromSource(e, s)
    /\ pc \in {"probe", "save", "export", "cleanup", "done"} =>
          \A s \in Sources :
             /\ fetchSt[s] = "settled"
             /\ s \notin fetchFailed => fetchVal[s] = Parsed[s]
    /\ pc = "exit1" => \A s \in Sources : fetchSt[s] = "idle"
    /\ pc \notin {"done", "exit1"} => CanStep

\* a run completed and exported channels although some, but not all, sources
\* failed
C5_Witness ==
    /\ pc = "done"
    /\ fetchFailed # {}
    /\ fetchFailed # Sources
    /\ successfulSaves # {}

\* C6: the channels collectActiveLinks returns are exactly the table's entries
\* whose own probe completed with a status in [200, 400).
C6_ActiveIffProbedOk ==
    variant = "batched" =>
        /\ \A j \in DOMAIN probeSt :
              probeSt[j] \in {"active", "inactive"} =>
                  (probeSt[j] = "active" <=> items[j].url \in probedOk)
        /\ pc \in {"save", "export", "cleanup", "done"} =>
              /\ Elems(activeChannels) = {e \in Elems(allChannels) : e.url \in probedOk}
              /\ NoDuplicateUrls(activeChannels)

\* some urls were returned and some were excluded
C6_Witness ==
    /\ pc = "save"
    /\ Len(activeChannels) >= 1
    /\ Len(activeChannels) < Len(allChannels)

Succeeded(s) == fetchSt[s] = "settled" /\ s \notin fetchFailed

\* an entry of the table is never replaced, moved or removed
FirstWriterWins ==
    \A i \in DOMAIN allChannels :
        i \in DOMAIN allChannels' /\ allChannels'[i] = allChannels[i]

\* one entry per url offered by a successfully fetched source, each the record
\* of one of those sources
TableExact ==
    /\ NoDuplicateUrls(allChannels)
    /\ {e.url : e \in Elems(allChannels)} =
          UNION {{c.url : c \in Elems(Parsed[s])} : s \in {s \in Sources : Succeeded(s)}}
    /\ \A e \in Elems(allChannels) : \E s \in Sources : Succeeded(s) /\ FromSource(e, s)

\* C7: in the batched collector the first writer of a url wins and the table
\* holds exactly one unmodified source record per offered url.
C7_FirstWriterWins == [][FirstWriterWins]_vars /\ [](variant = "batched" => TableExact)

\* two sources offering a common url were both fetched successfully
C7_Witness ==
    /\ pc = "probe"
    /\ \E s \in Sources : s + 1 \in Sources /\ Succeeded(s) /\ Succeeded(s + 1)
    /\ Len(allChannels) >= 3

\* C8: every chunk splitChannels produces and the export loop writes has
\* between 1 and channelsPerFile channels.
C8_ChunkBound ==
    pc = "return" =>
        /\ \A i \in DOMAIN result.chunks :
              /\ Len(result.chunks[i]) >= 1
              /\ Len(result.chunks[i]) <= input.channelsPerFile
        /\ \A i \in DOMAIN result.written :
              /\ Len(result.written[i].chunk) >= 1
              /\ Len(result.written[i].chunk) <= input.channelsPerFile

\* a bucket that is cut into a full chunk and a shorter last one
C8_Witness ==
    /\ pc = "return"
    /\ Len(result.written) >= 2
    /\ Len(result.written[1].chunk) = input.channelsPerFile
    /\ Len(result.written[Len(result.written)].chunk) < input.channelsPerFile

RECURSIVE Concat(_, _)
Concat(seqs, i) == IF i > Len(seqs) THEN <<>> ELSE seqs[i] \o Concat(seqs, i + 1)

\* the decimal numerals of the chunk positions 2, 3, ...
ExpectedSuffix ==
    <<"", "2", "3", "4", "5", "6", "7", "8", "9", "10", "11", "12", "13", "14">>

\* C9: n >= 1 channels and k per file give ceil(n/k) chunks, consecutive slices
\* of the bucket, all but the last of size k, written as SpecialLinks,
\* SpecialLinks2, SpecialLinks3, ...
C9_ChunkLayout ==
    (pc = "return" /\ Len(input.channels) >= 1) =>
        LET n == Len(input.channels)
            k == input.channelsPerFile
            w == result.written
        IN  /\ Len(w) = (n + k - 1) \div k
            /\ Concat([i \in DOMAIN w |-> w[i].chunk], 1) = input.channels
            /\ \A i \in 1..(Len(w) - 1) : Len(w[i].chunk) = k
            /\ \A i \in DOMAIN w : w[i].base = "SpecialLinks" \o ExpectedSuffix[i]

\* scenario D: 5 channels, 2 per file
C9_Witness ==
    /\ pc = "return"
    /\ Len(input.channels) = 5
    /\ input.channelsPerFile = 2
    /\ [i \in DOMAIN result.written |-> Len(result.written[i].chunk)] = <<2, 2, 1>>
    /\ [i \in DOMAIN result.written |-> result.written[i].base] =
          <<"SpecialLinks", "SpecialLinks2", "SpecialLinks3">>

\* the places of the catalog at which a channel is found
Places(ch) ==
    {<<b, i>> \in (DOMAIN result) \X (1..Len(input)) :
        i \in DOMAIN result[b].channels /\ result[b].channels[i] = ch}

RECURSIVE SumLen(_, _)
SumLen(bs, i) == IF i > Len(bs) THEN 0 ELSE Len(bs[i].channels) + SumLen(bs, i + 1)

\* C10: groupChannels puts every input channel into exactly one bucket of the
\* catalog saveResults iterates over, whatever its group string, and a channel
\* without group or region into ("Unknown", "Unknown").
C10_GroupingTotal ==
    (variant = "groupChannels" /\ pc = "return") =>
        /\ \A i \in DOMAIN input : Cardinality(Places(input[i])) = 1
        /\ SumLen(result, 1) = Len(input)
        /\ \A i \in DOMAIN input :
              input[i].group = "" =>
                  \E b \in DOMAIN result :
                      /\ result[b].group = "Unknown"
                      /\ result[b].country = "Unknown"
                      /\ input[i] \in Elems(result[b].channels)

\* the positions at which name occurs in group, letter case ignored
OccurrencesIn(lowerGroup, lowerName) ==
    {p \in 1..(Len(lowerGroup) - Len(lowerName) + 1) :
        SubSeq(lowerGroup, p, p + Len(lowerName) - 1) = lowerName}

Occurrences(group, name) == OccurrencesIn(toLowerCase(group), toLowerCase(name))

FirstOccurring(lowerGroup) ==
    LET occurring == {i \in DOMAIN countries :
                         OccurrencesIn(lowerGroup, lowerCountries[i]) # {}}
    IN  IF occurring = {} THEN "Unknown"
        ELSE countries[CHOOSE i \in occurring : \A k \in occurring : i <= k]

ExpectedRegion(group) == FirstOccurring(toLowerCase(group))

\* group without the occurrence of name at p, trimmed; "General" if nothing is left
Stripped(group, name, p) ==
    LET rest == trim(SubSeq(group, 1, p - 1) \o SubSeq(group, p + Len(name), Len(group)))
    IN  IF rest = "" THEN "General" ELSE rest

RegionRule(key, group) ==
    /\ key.country = ExpectedRegion(group)
    /\ IF key.country = "Unknown"
       THEN key.group = group
       ELSE \E p \in Occurrences(group, key.country) :
               key.group = Stripped(group, key.country, p)

\* C11: the region groupChannels assigns to a channel is the first name of the
\* countries list that occurs in its group, letter case ignored, or "Unknown";
\* with a region, the bucket's group is the group less one occurrence of that
\* name, trimmed, or "General" if nothing is left.  This holds of the key
\* computed for every channel and of every bucket a channel is filed in.
C11_RegionAssignment ==
    (variant = "groupChannels" /\ pc = "return") =>
        /\ \A i \in DOMAIN input :
              input[i].group # "" => RegionRule(GroupKeyOf(input[i]), input[i].group)
        /\ \A b \in DOMAIN result : \A k \in DOMAIN result[b].channels :
              result[b].channels[k].group # "" =>
                  RegionRule(result[b], result[b].channels[k].group)

\* "India News" is filed under (News, India), a group naming two countries
\* under the one listed first, and a group naming none under Unknown
C11_Witness ==
    /\ variant = "groupChannels"
    /\ pc = "return"
    /\ \E b \in DOMAIN result :
          /\ result[b].group = "News" /\ result[b].country = "India"
          /\ \E k \in DOMAIN result[b].channels :
                result[b].channels[k].group = "India News"
    /\ \E b \in DOMAIN result :
          /\ result[b].group = "News UK" /\ result[b].country = "India"
    /\ \E b \in DOMAIN result :
          /\ result[b].group = "News" /\ result[b].country = "Unknown"

\* the files and directories of the tree that this run created
WrittenNow == tree.files \ PreviousTree.files

CreatedNow == tree.dirs \ PreviousTree.dirs

\* C12: once saveResults has created a directory or written a file, the tree
\* of the previous run is gone: no file of a previous run is in the tree next
\* to a directory or file of this run, during the run or after it.
C12_ClearedBeforeWrite ==
    (WrittenNow # {} \/ CreatedNow # {}) => tree.files \cap PreviousTree.files = {}

\* the number of chunks export task b has written in full
ChunksWritten(b) == IF expSt[b] = "fulfilled" THEN NumChunks(b) ELSE expChunk[b]

\* C13: when a run ends without a single chunk written in full, a run with no
\* active channel included, the tree under outputDirPrefix does not exist.
C13_NoResidualTree ==
    (pc = "done" /\ writes = {} /\ \A b \in DOMAIN expSt : ChunksWritten(b) = 0)
        => ~tree.exists

\* the files in the tree that carry chunk i of export task b
ArtifactsOf(b, i) ==
    {f \in tree.files : f.dir = buckets[b].dir /\ startsWith(f.name, baseName(i) \o ".")}

\* C14: every chunk of a bucket that was exported successfully has exactly four
\* files in the bucket's directory.
C14_FourArtifacts ==
    (pc = "done" /\ writes = {}) =>
        \A b \in successfulSaves : \A i \in 0..(NumChunks(b) - 1) :
            Cardinality(ArtifactsOf(b, i)) = 4

\* C15: when saveResults has returned, every export task has run to its end
\* whatever happened to the others, and if all of them failed nothing is left
\* under outputDirPrefix, the files of writes that were still in flight
\* included.
C15_RollbackOnTotalFailure ==
    (pc = "done" /\ expSt # <<>>) =>
        /\ \A b \in DOMAIN expSt : expSt[b] \in {"fulfilled", "rejected"}
        /\ (\A b \in DOMAIN expSt : expSt[b] = "rejected") =>
               (~tree.exists /\ tree.files = {})

IsEntryLine(l) == startsWith(trim(l), "#EXTINF")

IsUrlLine(l) == trim(l) # "" /\ ~startsWith(trim(l), "#")

\* line j is the first url line after the entry-metadata line i, with no other
\* entry-metadata line in between
Closes(lines, i, j) ==
    /\ i < j
    /\ IsEntryLine(lines[i])
    /\ IsUrlLine(lines[j])
    /\ \A m \in (i + 1)..(j - 1) : ~IsEntryLine(lines[m]) /\ ~IsUrlLine(lines[m])

Emitting(lines) == {j \in DOMAIN lines : \E i \in DOMAIN lines : Closes(lines, i, j)}

\* the position in the output of the channel that url line j closes
Rank(lines, j) == Cardinality({m \in Emitting(lines) : m <= j})

LastComma(l) ==
    IF \E p \in 1..Len(l) : CharAt(l, p) = ","
    THEN CHOOSE p \in 1..Len(l) :
             CharAt(l, p) = "," /\ \A q \in (p + 1)..Len(l) : CharAt(l, q) # ","
    ELSE 0

\* the text after the last comma of the line; "" when there is none
DisplayName(l) ==
    IF LastComma(trim(l)) = 0 THEN ""
    ELSE SubSeq(trim(l), LastComma(trim(l)) + 1, Len(trim(l)))

HasGroupTitle(l) == includes(l, "group-title=\"")

\* the content of the quoted group-title attribute
GroupTitle(l) ==
    LET start == indexOf(l, "group-title=\"", 1) + Len("group-title=\"")
    IN  SubSeq(l, start, indexOf(l, "\"", start) - 1)

ParseReturned == variant = "parseM3U" /\ pc = "return"

\* C16: parseM3U returns on every playlist text, and the channel of an
\* entry-metadata line without group-title attribute has group "Unknown", that
\* of a line without display name has name "Unknown".
C16_Defaults ==
    ParseReturned =>
        /\ Len(result) <= Len(input)
        /\ \A i, j \in DOMAIN input :
              Closes(input, i, j) =>
                  /\ Rank(input, j) \in DOMAIN result
                  /\ ~HasGroupTitle(input[i]) =>
                         result[Rank(input, j)].group = "Unknown"
                  /\ DisplayName(input[i]) = "" =>
                         result[Rank(input, j)].name = "Unknown"

\* C17: the name parseM3U gives a channel is the text after the last comma of
\* its entry-metadata line, and its group is the content of the line's quoted
\* group-title attribute.
C17_NameAfterLastComma ==
    ParseReturned =>
        \A i, j \in DOMAIN input :
            (Closes(input, i, j) /\ Rank(input, j) \in DOMAIN result) =>
                /\ DisplayName(input[i]) # "" =>
                       result[Rank(input, j)].name = DisplayName(input[i])
                /\ HasGroupTitle(input[i]) =>
                       result[Rank(input, j)].group = GroupTitle(input[i])

\* C18: parseM3U emits one channel for every url line that is the first one
\* after an entry-metadata line, with that line as its url, and nothing else:
\* a pending channel that meets another entry-metadata line or the end of the
\* input is dropped, a url line without pending channel is ignored, and no
\* emitted channel has an empty url.
C18_EmitOnUrlLine ==
    ParseReturned =>
        /\ Len(result) = Cardinality(Emitting(input))
        /\ \A j \in Emitting(input) : result[Rank(input, j)].url = trim(input[j])
        /\ \A k \in DOMAIN result : result[k].url # ""

\* two entry-metadata lines, then two url lines: the first pending channel is
\* dropped and the second url line is ignored
C18_Witness ==
    /\ ParseReturned
    /\ Len(input) = 4
    /\ IsEntryLine(input[1]) /\ IsEntryLine(input[2])
    /\ IsUrlLine(input[3]) /\ IsUrlLine(input[4])
    /\ Len(result) = 1
    /\ result[1].url = trim(input[3])

\* the export tasks whose bucket lives in directory d
BucketsAt(d) == {b \in DOMAIN buckets : buckets[b].dir = d}

BucketUrls(b) == {buckets[b].channels[k].url : k \in DOMAIN buckets[b].channels}

\* bucket b holds at least one channel, and only channels found active
ActiveBucket(b) ==
    /\ Len(buckets[b].channels) >= 1
    /\ BucketUrls(b) \subseteq probedOk
    /\ \A k \in DOMAIN buckets[b].channels :
          buckets[b].channels[k] \in Elems(activeChannels)

NoExportError ==
    /\ pc = "done"
    /\ writes = {}
    /\ expSt # <<>>
    /\ \A b \in DOMAIN expSt : expSt[b] = "fulfilled"

\* C19: every directory and file a run creates belongs to a (group, region)
\* bucket with at least one active channel, a file listing only channels of
\* that bucket, and after a run without file-system error every directory
\* created holds the files of at least one chunk.
C19_NoEmptyBucket ==
    /\ \A d \in CreatedNow : \E b \in BucketsAt(d) : ActiveBucket(b)
    /\ \A f \in WrittenNow :
          /\ UrlsIn(f) # {}
          /\ \E b \in BucketsAt(f.dir) : ActiveBucket(b) /\ UrlsIn(f) \subseteq BucketUrls(b)
    /\ NoExportError =>
          /\ \A b \in DOMAIN buckets : buckets[b].dir \in CreatedNow
          /\ \A d \in CreatedNow : \E b \in BucketsAt(d) : ArtifactsOf(b, 0) # {}

\* a run without error that exported two buckets
C19_Witness ==
    /\ NoExportError
    /\ Cardinality(CreatedNow) >= 2
    /\ \A d \in CreatedNow : \E f \in WrittenNow : f.dir = d

\* nothing has gone to the network or to the output tree
NothingIssued ==
    /\ \A s \in Sources : fetchSt[s] = "idle"
    /\ queue = <<>>
    /\ fetchFailed = {}
    /\ probeSt = <<>>
    /\ probedOk = {}
    /\ expSt = <<>>
    /\ writes = {}

\* C20: when loading the configuration fails the process exits with status 1
\* and stays there, and until the configuration is loaded no fetch, probe,
\* deletion, directory creation or file write is issued.
C20_ConfigFailureIsFatal ==
    /\ [](config = "failed" => pc = "exit1")
    /\ [](config # "loaded" => NothingIssued)
    /\ [][config # "loaded" =>
            (tree' = tree /\ (config' # "loaded" => NothingIssued'))]_vars
    /\ [][pc = "exit1" => UNCHANGED vars]_vars

\* the configuration failed to load in a run that found an earlier tree
C20_Witness ==
    /\ config = "failed"
    /\ pc = "exit1"
    /\ tree = PreviousTree

NoFetchPending == \A s \in Sources : fetchSt[s] \notin {"queued", "request", "body"}

NoProbePending == \A j \in DOMAIN probeSt : probeSt[j] \in {"active", "inactive"}

ExportBegun == expSt # <<>> \/ writes # {}

\* C21: a probe is in flight or done only when no fetch task is pending, an
\* export task or write exists only when every probe of every batch has
\* settled, and the tree changes only then.
C21_StagesInSequence ==
    /\ []((\E j \in DOMAIN probeSt : Issued(j)) => NoFetchPending)
    /\ [](ExportBegun => (NoFetchPending /\ NoProbePending))
    /\ [][tree' # tree => (NoFetchPending /\ NoProbePending)]_vars

\* the export is writing after a collection of more than one batch
C21_Witness ==
    /\ pc = "export"
    /\ writes # {}
    /\ Len(items) > BatchSize
    /\ fetchFailed # Sources

InFlight(j) == probeSt[j] \in {"queued", "running"}

\* an entry's probe moves idle -> queued -> running -> settled and never back
ProbeAdvances(j) ==
    /\ probeSt[j] \in {"active", "inactive"} => probeSt'[j] = probeSt[j]
    /\ probeSt[j] = "running" => probeSt'[j] \in {"running", "active", "inactive"}
    /\ probeSt[j] = "queued" => probeSt'[j] \in {"queued", "running"}
    /\ probeSt[j] = "idle" => probeSt'[j] \in {"idle", "queued"}

\* the batch under way is the slice of at most BatchSize entries that starts
\* at batchI: the entries before it are settled, those after it untouched
BatchWindow ==
    /\ batchI % BatchSize = 0
    /\ \A j \in DOMAIN probeSt :
          /\ InFlight(j) => (batchI < j /\ j <= batchI + BatchSize)
          /\ j <= batchI => probeSt[j] \in {"active", "inactive"}
          /\ j > batchI + BatchSize => probeSt[j] = "idle"

\* C22: the batches are the consecutive slices of at most BatchSize entries of
\* the table, every entry is in exactly one of them, and every entry is probed
\* exactly once: its probe is issued once, and when the loop has ended the
\* probe of every entry has settled.
C22_BatchPartition ==
    /\ [](variant = "batched" =>
            /\ NoDuplicateUrls(items)
            /\ (probeSt # <<>> => (items = allChannels /\ DOMAIN probeSt = DOMAIN items))
            /\ BatchWindow
            /\ (pc \in {"save", "export", "cleanup"} =>
                   (items # <<>> /\ NoProbePending)))
    /\ [][variant = "batched" =>
            \A j \in DOMAIN probeSt \cap DOMAIN probeSt' : ProbeAdvances(j)]_vars

\* a table of more entries than a batch holds, the last batch shorter than
\* BatchSize, all probed
C22_Witness ==
    /\ pc = "save"
    /\ Len(items) > BatchSize
    /\ Len(items) % BatchSize # 0
    /\ NoProbePending

\* the check task of entry j has issued its HEAD request
Probed(j) == probeSt[j] \in {"running", "active", "inactive"}

\* C23: in SpecialCollection.js no url is probed by two check tasks, and an
\* entry the Map holds for a url is never replaced by a later task's record.
C23_NoCheckThenActRace ==
    /\ [](variant = "simple" =>
            \A i, j \in DOMAIN probeSt :
                (i # j /\ items[i].url = items[j].url) => ~(Probed(i) /\ Probed(j)))
    /\ [][variant = "simple" =>
            \A k \in DOMAIN allChannels :
                k \in DOMAIN allChannels' /\ allChannels'[k] = allChannels[k]]_vars

\* main has logged its completion message and nothing is pending
Completed ==
    /\ pc = "done"
    /\ queue = <<>>
    /\ writes = {}
    /\ NoFetchPending
    /\ NoProbePending
    /\ \A b \in DOMAIN expSt : expSt[b] \in {"fulfilled", "rejected"}

\* C24 as stated: every run ends with main at its completion message.
C24_AlwaysCompletes == <>Completed

\* C24, amended: every run ends, either with main at its completion message
\* and every fetch, probe and export task settled, or with the exit of
\* loadConfig when the configuration could not be loaded.
C24_Terminates == <>(Completed \/ (pc = "exit1" /\ config = "failed"))

\* a run that went through several batches and an export and completed
C24_Witness ==
    /\ Completed
    /\ Len(items) > BatchSize
    /\ successfulSaves # {}

====
